---- MODULE Spec2Model ----
(***************************************************************************)
(* Model of src/main.py: a Flask service whose single handler hello_world  *)
(* runs init_database (CREATE TABLE IF NOT EXISTS, then populate_facts),   *)
(* then get_random_fact, and assembles a JSON response.  main() runs       *)
(* init_database once before the server starts.                            *)
(*                                                                         *)
(* Every call into the MySQL driver (connect, cursor, execute, fetchone,   *)
(* executemany, commit, rollback, close) is one atomic step that succeeds  *)
(* or raises.  Threads interleave between driver calls.                    *)
(***************************************************************************)
EXTENDS Integers, Sequences, FiniteSets, TLC

\* ------------------------------------------------------------------ bounds
\* Total number of GET / requests the model lets the server receive.
MaxRequests == 2
\* Rows a failing executemany may have inserted before it raised: 0..MaxPartial.
MaxPartial == 1
\* Rows ORDER BY RAND() LIMIT 1 may pick: one of the first MaxPick rows.
MaxPick == 2
\* Direct calls of get_db_connection in one run.
MaxCalls == 2

\* ------------------------------------------------------- program constants
\* populate_facts: the literal list `facts` (main.py 149-165).
facts ==
  << "The first computer bug was an actual bug - a moth found in the Harvard Mark II computer in 1947.",
     "A group of flamingos is called a 'flamboyance'.",
     "Octopuses have three hearts and blue blood.",
     "Honey never spoils - archaeologists have found 3000-year-old honey that's still edible.",
     "Bananas are berries, but strawberries aren't.",
     "A day on Venus is longer than its year.",
     "Sharks have been around longer than trees.",
     "Wombat poop is cube-shaped.",
     "A single cloud can weigh more than a million pounds.",
     "The human brain uses about 20% of the body's total energy.",
     "Dolphins have names for each other.",
     "A group of owls is called a 'parliament'.",
     "The first email was sent in 1971.",
     "There are more possible games of chess than atoms in the observable universe.",
     "A 'jiffy' is an actual unit of time - 1/100th of a second." >>

\* len(facts)
N == Len(facts)

FactSet == { facts[i] : i \in 1..N }

\* Variant: the connection opened with autocommit=True.
autocommit_on == TRUE

\* get_db_connection passes autocommit=False to the driver (main.py 62).
autocommit == FALSE

\* hello_world: the placeholder put in random_fact (main.py 294).
NoFactsMessage ==
  "No facts found in database. Please run the installation script to populate facts."

\* hello_world: the prefix of the error field (main.py 285).
InitFailedPrefix == "Database initialization failed: "

\* ------------------------------------------------------------ processes
\* Process 0 is main() (startup).  The server (app.run, 349) handles each
\* request in a thread of its own; two of them can be in flight at a time.
MainProc == 0
Threads == {1, 2}
Procs == {MainProc} \cup Threads

\* The MySQL server the driver talks to, as the whole run finds it: "sound"
\* (no driver call fails for a reason of the server or the network), "down"
\* (unreachable: every connect fails), "flaky" (any driver call may fail or not).
StorageModes == {"sound", "flaky", "down"}

\* Where process 0 starts: in main() (`python main.py`, 313-356), which calls
\* init_database() before app.run; or already serving, when the module's
\* `app` is served by a WSGI host or the test client and main() never runs.
MainEntries == {"idb_connect", "serving"}

\* ------------------------------------------------------- python values
\* Python None / an optional value: <<>> is None, <<x>> is the value x.
None == << >>
Some(x) == << x >>

\* Truthiness of an optional string as `if x:` tests it: None and "" are falsy.
Truthy(opt) == opt # None /\ opt[1] # ""

\* An exception in flight: its class, str(e), and the driver call that raised it.
NoExc == [kind |-> "none", msg |-> "", at |-> ""]

\* The outcome of a driver call that returned normally.
Ok == [kind |-> "ok", msg |-> "", at |-> ""]

\* What a driver call may raise: mysql.connector.Error (its message is never
\* empty) or any other Exception, whose message may be empty.
Failures(at) ==
  { [kind |-> "Error", msg |-> "m", at |-> at],
    [kind |-> "Exception", msg |-> "m", at |-> at],
    [kind |-> "Exception", msg |-> "", at |-> at] }

\* The same by class alone, for the calls of populate_facts and
\* get_random_fact: no code reads what they raise beyond its class (the rest
\* is only logged).
FailuresNoMsg(at) == { [e EXCEPT !.msg = "", !.at = ""] : e \in Failures(at) }

Min(a, b) == IF a < b THEN a ELSE b

\* isinstance(e, cls) for the two classes the except clauses name;
\* mysql.connector.Error is a subclass of Exception, SystemExit (what
\* sys.exit raises) is not.
IsInstance(e, cls) ==
  \/ e.kind = cls
  \/ cls = "Exception" /\ e.kind = "Error"

\* ------------------------------------------------ environment and int()
\* A text whose characters int() inspects is a sequence of one-character
\* strings; the other texts are strings.
DefaultPort == << "3", "3", "0", "6" >>

\* os.getenv(name, default) (43-47): the default only when the variable is
\* unset; a variable set to the empty text gives the empty text.
Getenv(value, default) == IF value = None THEN default ELSE value[1]

Digits == {"0", "1", "2", "3", "4", "5", "6", "7", "8", "9"}
Whitespace == {" ", "\t", "\n"}

DigitValue(c) ==
  CASE c = "0" -> 0 [] c = "1" -> 1 [] c = "2" -> 2 [] c = "3" -> 3
    [] c = "4" -> 4 [] c = "5" -> 5 [] c = "6" -> 6 [] c = "7" -> 7
    [] c = "8" -> 8 [] c = "9" -> 9

RECURSIVE StripLeft(_)
StripLeft(t) ==
  IF t # << >> /\ Head(t) \in Whitespace THEN StripLeft(Tail(t)) ELSE t

RECURSIVE StripRight(_)
StripRight(t) ==
  IF t # << >> /\ t[Len(t)] \in Whitespace
  THEN StripRight(SubSeq(t, 1, Len(t) - 1)) ELSE t

Strip(t) == StripRight(StripLeft(t))

\* The text without its sign.
Unsigned(t) == IF t # << >> /\ Head(t) \in {"+", "-"} THEN Tail(t) ELSE t

\* Whether int(text) (58) returns: surrounding whitespace, one optional
\* sign, then decimal digits with single underscores between them.
\* Otherwise int raises ValueError.
IsIntLiteral(text) ==
  LET d == Unsigned(Strip(text)) IN
    /\ d # << >>
    /\ \A i \in 1..Len(d) : d[i] \in Digits \cup {"_"}
    /\ d[1] \in Digits /\ d[Len(d)] \in Digits
    /\ \A i \in 1..(Len(d) - 1) : ~ (d[i] = "_" /\ d[i + 1] = "_")

RECURSIVE DigitsValue(_, _)
DigitsValue(d, acc) ==
  IF d = << >> THEN acc
  ELSE DigitsValue(Tail(d),
                   IF Head(d) = "_" THEN acc ELSE 10 * acc + DigitValue(Head(d)))

\* int(text) (58) for a text it accepts.
PyInt(text) ==
  LET t == Strip(text)
      v == DigitsValue(Unsigned(t), 0)
  IN IF Head(t) = "-" THEN 0 - v ELSE v

\* The ValueError int() raises for any other text.
ValueError == [kind |-> "Exception", msg |-> "m", at |-> "int"]

\* The environment with no DB_* variable set.
EnvUnset ==
  [DB_HOST |-> None, DB_PORT |-> None, DB_NAME |-> None, DB_USER |-> None,
   DB_PASSWORD |-> None]

\* The environments explored for direct calls of get_db_connection.
PortTexts ==
  { << "3", "3", "0", "7" >>, << "3", "3", "o", "7" >>, << >>,
    << " ", "8", "_", "0" >> }
Environments ==
  [DB_HOST : {None, Some("test-host")},
   DB_PORT : {None} \cup { Some(t) : t \in PortTexts },
   DB_NAME : {None, Some("test_db")},
   DB_USER : {None, Some("test_user")},
   DB_PASSWORD : {None, Some("")}]

connection_timeout == 10

\* Variant: connect called without connection_timeout.
ConnectArgs_noTimeout(env) ==
  [host |-> Getenv(env.DB_HOST, "localhost"),
   port |-> PyInt(Getenv(env.DB_PORT, DefaultPort)),
   database |-> Getenv(env.DB_NAME, "hello_world"),
   user |-> Getenv(env.DB_USER, "root"),
   password |-> Getenv(env.DB_PASSWORD, "root"),
   autocommit |-> autocommit,
   raise_on_warnings |-> FALSE]

\* The keyword arguments of mysql.connector.connect(...) (56-65).
ConnectArgs(env) ==
  [host |-> Getenv(env.DB_HOST, "localhost"),
   port |-> PyInt(Getenv(env.DB_PORT, DefaultPort)),
   database |-> Getenv(env.DB_NAME, "hello_world"),
   user |-> Getenv(env.DB_USER, "root"),
   password |-> Getenv(env.DB_PASSWORD, "root"),
   connection_timeout |-> connection_timeout,
   autocommit |-> autocommit,
   raise_on_warnings |-> FALSE]

\* ------------------------------------------------------------------ state
VARIABLES
  pc,           \* pc[p]: the driver call (or caller step) process p is about to make
  exc,          \* exc[p]: the exception propagating in p, NoExc when none
  idb,          \* idb[p]: locals of init_database
  pf,           \* pf[p]: locals of populate_facts and its open transaction
  grf,          \* grf[p]: locals of get_random_fact
  hw,           \* hw[p]: locals of hello_world
  response,     \* response[p]: what hello_world returned, None before
  tableExists,  \* storage: random_facts exists
  rows,         \* storage: committed rows of random_facts (the fact column, in id order)
  nreq,         \* requests received so far
  storage,      \* how the MySQL server behaves in this run (see StorageModes)
  environ,      \* os.environ: the DB_* variables, None when unset
  gdc           \* the direct calls of get_db_connection made so far: for each,
                \* the argument lists mysql.connector.connect was called with
                \* and what the call returned or raised

vars ==
  << pc, exc, idb, pf, grf, hw, response, tableExists, rows, nreq, storage,
     environ, gdc >>

\* Frames as they are when the function is entered.
IdbFrame0 == [conn |-> "unset", cursor |-> "unset"]
PfFrame0 ==
  [conn |-> "None", cursor |-> "None", count |-> None, fact_count |-> None,
   pending |-> << >>, committed |-> FALSE]
GrfFrame0 ==
  [conn |-> "unset", cursor |-> "unset", resultset |-> None, ret |-> None,
   e |-> "none"]
HwFrame0 == [db_init_error |-> None, random_fact |-> None]

Init ==
  /\ \E entry \in MainEntries :
       pc = [p \in Procs |-> IF p = MainProc THEN entry ELSE "idle"]
  /\ exc = [p \in Procs |-> NoExc]
  /\ idb = [p \in Procs |-> IdbFrame0]
  /\ pf = [p \in Procs |-> PfFrame0]
  /\ grf = [p \in Procs |-> GrfFrame0]
  /\ hw = [p \in Procs |-> HwFrame0]
  /\ response = [p \in Procs |-> None]
  /\ tableExists = FALSE
  /\ rows = << >>
  /\ nreq = 0
  /\ storage \in StorageModes
  /\ environ = EnvUnset
  /\ gdc = << >>

\* ------------------------------------------------------- get_db_connection
\* get_db_connection: returns the driver's connection, re-raises what
\* mysql.connector.connect raised (both except clauses end in `raise`).
\* `out` is Ok or the exception the driver raised; the result is Ok (the
\* connection is returned) or the exception the caller sees.
\* Variant: sys.exit(1) in `except Error` in place of `raise`.
GetDbConnection_exit(out) ==
  IF out.kind = "Error" THEN [out EXCEPT !.kind = "SystemExit"] ELSE out

\* Variant: sys.exit(1) in both except clauses.
GetDbConnection_exitAny(out) ==
  IF out = Ok THEN out ELSE [out EXCEPT !.kind = "SystemExit"]

GetDbConnection(out) == out

\* What mysql.connector.connect(...) (56-65) may do under the storage mode.
DriverConnect(fs) ==
  IF storage = "sound" THEN {Ok}
  ELSE IF storage = "down" THEN fs
  ELSE {Ok} \cup fs

ConnectOutcomes == { GetDbConnection(o) : o \in DriverConnect(Failures("connect")) }
ConnectOutcomesNoMsg == { GetDbConnection(o) : o \in DriverConnect(FailuresNoMsg("connect")) }

\* The outcomes of any other driver call `at`, in init_database and elsewhere.
Outcomes(at) == IF storage = "sound" THEN {Ok} ELSE {Ok} \cup Failures(at)
OutcomesNoMsg(at) == IF storage = "sound" THEN {Ok} ELSE {Ok} \cup FailuresNoMsg(at)

\* The Error the server answers a statement it cannot execute with (a missing
\* table, a table that already exists), whatever the storage mode.
SqlError(at) == [kind |-> "Error", msg |-> "m", at |-> at]
SqlErrorNoMsg == [kind |-> "Error", msg |-> "", at |-> ""]

Goto(p, l) == pc' = [pc EXCEPT ![p] = l]

\* ---------------------------------------------------------- init_database
\* Variant: the connection attempted again when there is none.
IdbFinallyPc_retry(f) ==
  IF f.cursor # "unset" THEN "idb_cursor_close"
  ELSE IF f.conn # "unset" THEN "idb_conn_close"
  ELSE "idb_connect"

\* The finally block (118-125): cursor.close() if 'cursor' in locals(), then
\* conn.close() if 'conn' in locals(); then the function exits.
IdbFinallyPc(f) ==
  IF f.cursor # "unset" THEN "idb_cursor_close"
  ELSE IF f.conn # "unset" THEN "idb_conn_close"
  ELSE "idb_return"

\* Variant: the rollback guarded by 'cursor' in locals().
IdbRollsBack_cursor(f, e) == IsInstance(e, "Error") /\ f.cursor # "unset"

\* `except Error` (109-114): conn.rollback() is called when 'conn' in locals().
IdbRollsBack(f, e) == IsInstance(e, "Error") /\ f.conn # "unset"

\* An exception e raised in the try body with locals f: the except clauses
\* (109-117) pick rollback or not and re-raise; the finally block follows.
IdbExcept(p, f, e) ==
  /\ idb' = [idb EXCEPT ![p] = f]
  /\ exc' = [exc EXCEPT ![p] = e]
  /\ Goto(p, IF IdbRollsBack(f, e) THEN "idb_rollback" ELSE IdbFinallyPc(f))

\* conn = get_db_connection() (83)
IdbConnect(p) ==
  /\ pc[p] = "idb_connect"
  /\ \E out \in ConnectOutcomes :
       IF out = Ok
       THEN /\ idb' = [idb EXCEPT ![p].conn = "open"]
            /\ Goto(p, "idb_cursor")
            /\ UNCHANGED exc
       ELSE IdbExcept(p, idb[p], out)
  /\ UNCHANGED << pf, grf, hw, response, tableExists, rows, nreq, storage, environ, gdc >>

\* cursor = conn.cursor() (85)
IdbCursor(p) ==
  /\ pc[p] = "idb_cursor"
  /\ \E out \in Outcomes("cursor") :
       IF out = Ok
       THEN /\ idb' = [idb EXCEPT ![p].cursor = "open"]
            /\ Goto(p, "idb_create")
            /\ UNCHANGED exc
       ELSE IdbExcept(p, idb[p], out)
  /\ UNCHANGED << pf, grf, hw, response, tableExists, rows, nreq, storage, environ, gdc >>

\* Variant: CREATE TABLE without IF NOT EXISTS.
CreateAccepted_plain(exists) == ~ exists

\* `CREATE TABLE IF NOT EXISTS` (91): the server accepts the statement
\* whether or not the table exists.
CreateAccepted(exists) == TRUE

\* Variant: the table dropped and created anew.
RowsAfterCreate_recreate(rs) == << >>

\* The rows of the table after CREATE TABLE IF NOT EXISTS (90-96): those it
\* had; a table that exists is left alone.
RowsAfterCreate(rs) == rs

\* cursor.execute('CREATE TABLE IF NOT EXISTS random_facts ...') (90-96).
\* CREATE TABLE is DDL: MySQL commits it implicitly when it executes.
IdbCreate(p) ==
  /\ pc[p] = "idb_create"
  /\ \E out \in IF CreateAccepted(tableExists) THEN Outcomes("execute")
                 ELSE (Outcomes("execute") \ {Ok}) \cup {SqlError("execute")} :
       IF out = Ok
       THEN /\ tableExists' = TRUE
            /\ rows' = RowsAfterCreate(rows)
            /\ Goto(p, "idb_commit")
            /\ UNCHANGED << exc, idb >>
       ELSE /\ IdbExcept(p, idb[p], out)
            /\ UNCHANGED << tableExists, rows >>
  /\ UNCHANGED << pf, grf, hw, response, nreq, storage, environ, gdc >>

\* conn.commit() (98); on success populate_facts() is called (105).
IdbCommit(p) ==
  /\ pc[p] = "idb_commit"
  /\ \E out \in Outcomes("commit") :
       IF out = Ok
       THEN /\ Goto(p, "pf_connect")
            /\ pf' = [pf EXCEPT ![p] = PfFrame0]
            /\ UNCHANGED << exc, idb >>
       ELSE /\ IdbExcept(p, idb[p], out)
            /\ UNCHANGED pf
  /\ UNCHANGED << grf, hw, response, tableExists, rows, nreq, storage, environ, gdc >>

\* conn.rollback() in `except Error` (113), then `raise` (114).  A rollback
\* that raises replaces the exception being handled.
IdbRollback(p) ==
  /\ pc[p] = "idb_rollback"
  /\ \E out \in Outcomes("rollback") :
       exc' = [exc EXCEPT ![p] = IF out = Ok THEN @ ELSE out]
  /\ Goto(p, IdbFinallyPc(idb[p]))
  /\ UNCHANGED << idb, pf, grf, hw, response, tableExists, rows, nreq, storage, environ, gdc >>

\* cursor.close() in the finally block (119-121).  When it raises, the rest
\* of the block (conn.close()) is skipped and the new exception propagates.
IdbCursorClose(p) ==
  /\ pc[p] = "idb_cursor_close"
  /\ \E out \in Outcomes("cursor.close") :
       IF out = Ok
       THEN /\ idb' = [idb EXCEPT ![p].cursor = "closed"]
            /\ Goto(p, IF idb[p].conn # "unset" THEN "idb_conn_close" ELSE "idb_return")
            /\ UNCHANGED exc
       ELSE /\ exc' = [exc EXCEPT ![p] = out]
            /\ Goto(p, "idb_return")
            /\ UNCHANGED idb
  /\ UNCHANGED << pf, grf, hw, response, tableExists, rows, nreq, storage, environ, gdc >>

\* conn.close() in the finally block (122-125).
IdbConnClose(p) ==
  /\ pc[p] = "idb_conn_close"
  /\ \E out \in Outcomes("conn.close") :
       IF out = Ok
       THEN /\ idb' = [idb EXCEPT ![p].conn = "closed"]
            /\ UNCHANGED exc
       ELSE /\ exc' = [exc EXCEPT ![p] = out]
            /\ UNCHANGED idb
  /\ Goto(p, "idb_return")
  /\ UNCHANGED << pf, grf, hw, response, tableExists, rows, nreq, storage, environ, gdc >>


\* --------------------------------------------------------- populate_facts
\* The finally block (181-185): cursor.close() if cursor, conn.close() if conn.
PfFinallyPc(f) ==
  IF f.cursor # "None" THEN "pf_cursor_close"
  ELSE IF f.conn # "None" THEN "pf_conn_close"
  ELSE "pf_return"

\* `except Error` (173-177): conn.rollback() is called `if conn`.
PfRollsBack(f, e) == IsInstance(e, "Error") /\ f.conn # "None"

\* An exception e raised in the try body with locals f (173-180).
PfExcept(p, f, e) ==
  /\ pf' = [pf EXCEPT ![p] = f]
  /\ exc' = [exc EXCEPT ![p] = e]
  /\ Goto(p, IF PfRollsBack(f, e) THEN "pf_rollback" ELSE PfFinallyPc(f))

\* Variant: the batch misses the last fact (facts[:-1]).
InsertParams_dropLast == SubSeq(facts, 1, N - 1)

\* The rows executemany is given: [(fact,) for fact in facts] (169).
InsertParams == facts

\* Variant: the gate also skips an empty table.
PfSkips_orEmpty(fact_count) == fact_count >= 0

\* Variant: the comparison of the gate inverted.
PfSkips_inverted(fact_count) == fact_count < 0

\* `if fact_count > 0: return` (143-145)
PfSkips(fact_count) == fact_count > 0

\* conn = get_db_connection() (134)
PfConnect(p) ==
  /\ pc[p] = "pf_connect"
  /\ \E out \in ConnectOutcomesNoMsg :
       IF out = Ok
       THEN /\ pf' = [pf EXCEPT ![p].conn = "open"]
            /\ Goto(p, "pf_cursor")
            /\ UNCHANGED exc
       ELSE PfExcept(p, pf[p], out)
  /\ UNCHANGED << idb, grf, hw, response, tableExists, rows, nreq, storage, environ, gdc >>

\* cursor = conn.cursor() (135)
PfCursor(p) ==
  /\ pc[p] = "pf_cursor"
  /\ \E out \in OutcomesNoMsg("cursor") :
       IF out = Ok
       THEN /\ pf' = [pf EXCEPT ![p].cursor = "open"]
            /\ Goto(p, "pf_count")
            /\ UNCHANGED exc
       ELSE PfExcept(p, pf[p], out)
  /\ UNCHANGED << idb, grf, hw, response, tableExists, rows, nreq, storage, environ, gdc >>

\* cursor.execute('SELECT COUNT(*) FROM random_facts') (139): the server counts
\* the committed rows plus this transaction's own; it raises an Error when the
\* table does not exist.
PfCount(p) ==
  /\ pc[p] = "pf_count"
  /\ \E out \in OutcomesNoMsg("execute") \cup {SqlErrorNoMsg} :
       IF out = Ok
       THEN /\ tableExists
            /\ pf' = [pf EXCEPT ![p].count = Some(Len(rows) + Len(pf[p].pending))]
            /\ Goto(p, "pf_fetch")
            /\ UNCHANGED exc
       ELSE /\ IF tableExists THEN out \in OutcomesNoMsg("execute")
               ELSE out.kind = "Error"
            /\ PfExcept(p, pf[p], out)
  /\ UNCHANGED << idb, grf, hw, response, tableExists, rows, nreq, storage, environ, gdc >>

\* fact_count = cursor.fetchone()[0] (140), then the gate (143-145).
PfFetch(p) ==
  /\ pc[p] = "pf_fetch"
  /\ \E out \in OutcomesNoMsg("fetchone") :
       IF out = Ok
       THEN LET f == [pf[p] EXCEPT !.fact_count = pf[p].count] IN
            /\ pf' = [pf EXCEPT ![p] = f]
            /\ Goto(p, IF PfSkips(f.fact_count[1]) THEN PfFinallyPc(f) ELSE "pf_insert")
            /\ UNCHANGED exc
       ELSE PfExcept(p, pf[p], out)
  /\ UNCHANGED << idb, grf, hw, response, tableExists, rows, nreq, storage, environ, gdc >>

\* cursor.executemany(insert_query, [(fact,) for fact in facts]) (167-169).
\* With autocommit off the inserted rows stay in the connection's transaction.
\* When the call raises, any prefix of the batch may already have been inserted.
PfInsert(p) ==
  /\ pc[p] = "pf_insert"
  /\ \E out \in OutcomesNoMsg("executemany") :
       \E k \in {Len(InsertParams)} \cup 0..Min(MaxPartial, Len(InsertParams) - 1) :
         /\ (out = Ok) <=> (k = Len(InsertParams))
         /\ LET batch == SubSeq(InsertParams, 1, k)
                f == IF autocommit THEN pf[p]
                     ELSE [pf[p] EXCEPT !.pending = @ \o batch]
            IN /\ rows' = IF autocommit THEN rows \o batch ELSE rows
               /\ IF out = Ok
                  THEN /\ pf' = [pf EXCEPT ![p] = f]
                       /\ Goto(p, "pf_commit")
                       /\ UNCHANGED exc
                  ELSE PfExcept(p, f, out)
  /\ UNCHANGED << idb, grf, hw, response, tableExists, nreq, storage, environ, gdc >>

\* conn.commit() (170), then the success log and print (171-172).  A commit
\* that raises may or may not have been applied by the server.
PfCommit(p) ==
  /\ pc[p] = "pf_commit"
  /\ \E out \in OutcomesNoMsg("commit") :
       \E applied \in BOOLEAN :
         /\ (out = Ok) => applied
         /\ rows' = IF applied THEN rows \o pf[p].pending ELSE rows
         /\ LET f == [pf[p] EXCEPT !.pending = IF applied THEN << >> ELSE @,
                                   !.committed = (out = Ok)]
            IN IF out = Ok
               THEN /\ pf' = [pf EXCEPT ![p] = f]
                    /\ Goto(p, PfFinallyPc(f))
                    /\ UNCHANGED exc
               ELSE PfExcept(p, f, out)
  /\ UNCHANGED << idb, grf, hw, response, tableExists, nreq, storage, environ, gdc >>

\* conn.rollback() in `except Error` (175-176), then `raise` (177).
PfRollback(p) ==
  /\ pc[p] = "pf_rollback"
  /\ \E out \in OutcomesNoMsg("rollback") :
       /\ pf' = [pf EXCEPT ![p].pending = IF out = Ok THEN << >> ELSE @]
       /\ exc' = [exc EXCEPT ![p] = IF out = Ok THEN @ ELSE out]
  /\ Goto(p, PfFinallyPc(pf[p]))
  /\ UNCHANGED << idb, grf, hw, response, tableExists, rows, nreq, storage, environ, gdc >>

\* cursor.close() in the finally block (182-183).
PfCursorClose(p) ==
  /\ pc[p] = "pf_cursor_close"
  /\ \E out \in OutcomesNoMsg("cursor.close") :
       IF out = Ok
       THEN /\ pf' = [pf EXCEPT ![p].cursor = "closed"]
            /\ Goto(p, IF pf[p].conn # "None" THEN "pf_conn_close" ELSE "pf_return")
            /\ UNCHANGED exc
       ELSE /\ exc' = [exc EXCEPT ![p] = out]
            /\ Goto(p, "pf_return")
            /\ UNCHANGED pf
  /\ UNCHANGED << idb, grf, hw, response, tableExists, rows, nreq, storage, environ, gdc >>

\* conn.close() in the finally block (184-185).  Closing the connection ends
\* its transaction: what was not committed is discarded by the server.
PfConnClose(p) ==
  /\ pc[p] = "pf_conn_close"
  /\ \E out \in OutcomesNoMsg("conn.close") :
       IF out = Ok
       THEN /\ pf' = [pf EXCEPT ![p].conn = "closed", ![p].pending = << >>]
            /\ UNCHANGED exc
       ELSE /\ exc' = [exc EXCEPT ![p] = out]
            /\ UNCHANGED pf
  /\ Goto(p, "pf_return")
  /\ UNCHANGED << idb, grf, hw, response, tableExists, rows, nreq, storage, environ, gdc >>

\* Variant: `except Error` in place of `except Exception`.
IdbPopulateCatches_ErrorOnly(e) == IsInstance(e, "Error")

\* `except Exception as e` around populate_facts() (106)
IdbPopulateCatches(e) == IsInstance(e, "Exception")

\* init_database's inner try (104-108): `except Exception` swallows whatever
\* populate_facts raised; init_database goes on to its finally block.  A
\* transaction left open by populate_facts is never committed.
PfReturn(p) ==
  /\ pc[p] = "pf_return"
  /\ IF exc[p] = NoExc \/ IdbPopulateCatches(exc[p])
     THEN /\ exc' = [exc EXCEPT ![p] = NoExc]
          /\ Goto(p, IdbFinallyPc(idb[p]))
          /\ UNCHANGED idb
     ELSE IdbExcept(p, idb[p], exc[p])
  /\ pf' = [pf EXCEPT ![p] = PfFrame0]
  /\ UNCHANGED << grf, hw, response, tableExists, rows, nreq, storage, environ, gdc >>


\* -------------------------------------------------------- get_random_fact
\* The finally block (210-214).
GrfFinallyPc(f) ==
  IF f.cursor # "unset" THEN "grf_cursor_close"
  ELSE IF f.conn # "unset" THEN "grf_conn_close"
  ELSE "grf_return"

\* `except Error` and `except Exception` (203-209) both `return None`: the
\* exception is handled, the finally block follows.  What is no Exception
\* passes both clauses and propagates through the finally block.
GrfExcept(p, f, e) ==
  /\ Goto(p, GrfFinallyPc(f))
  /\ IF IsInstance(e, "Exception")
     THEN /\ grf' = [grf EXCEPT ![p] = [f EXCEPT !.e = e.kind, !.ret = None]]
          /\ UNCHANGED exc
     ELSE /\ grf' = [grf EXCEPT ![p] = f]
          /\ exc' = [exc EXCEPT ![p] = e]

\* Variant: a placeholder text returned when there is no row.
GrfReturnValue_placeholder(result) ==
  IF result # None THEN Some(result[1]) ELSE Some(NoFactsMessage)

\* Variant: a fixed fact returned in place of the fetched row.
GrfReturnValue_lastSeed(result) == IF result # None THEN Some(facts[N]) ELSE None

\* `if result: return result[0] else: return None` (197-202); result is the
\* row tuple (fact,) or None.
GrfReturnValue(result) == IF result # None THEN Some(result[1]) ELSE None

\* conn = get_db_connection() (192)
GrfConnect(p) ==
  /\ pc[p] = "grf_connect"
  /\ \E out \in ConnectOutcomesNoMsg :
       IF out = Ok
       THEN /\ grf' = [grf EXCEPT ![p].conn = "open"]
            /\ Goto(p, "grf_cursor")
            /\ UNCHANGED exc
       ELSE GrfExcept(p, grf[p], out)
  /\ UNCHANGED << idb, pf, hw, response, tableExists, rows, nreq, storage, environ, gdc >>

\* cursor = conn.cursor() (193)
GrfCursor(p) ==
  /\ pc[p] = "grf_cursor"
  /\ \E out \in OutcomesNoMsg("cursor") :
       IF out = Ok
       THEN /\ grf' = [grf EXCEPT ![p].cursor = "open"]
            /\ Goto(p, "grf_select")
            /\ UNCHANGED exc
       ELSE GrfExcept(p, grf[p], out)
  /\ UNCHANGED << idb, pf, hw, response, tableExists, rows, nreq, storage, environ, gdc >>

\* cursor.execute('SELECT fact FROM random_facts ORDER BY RAND() LIMIT 1') (195):
\* the server picks any one committed row, or no row when the table is empty;
\* it raises an Error when the table does not exist.
GrfSelect(p) ==
  /\ pc[p] = "grf_select"
  /\ \E out \in OutcomesNoMsg("execute") \cup {SqlErrorNoMsg} :
       IF out = Ok
       THEN /\ tableExists
            /\ \E rs \in IF rows = << >> THEN {None}
                         ELSE { << rows[i] >> : i \in 1..Min(MaxPick, Len(rows)) } :
                 grf' = [grf EXCEPT ![p].resultset = rs]
            /\ Goto(p, "grf_fetch")
            /\ UNCHANGED exc
       ELSE /\ IF tableExists THEN out \in OutcomesNoMsg("execute")
               ELSE out.kind = "Error"
            /\ GrfExcept(p, grf[p], out)
  /\ UNCHANGED << idb, pf, hw, response, tableExists, rows, nreq, storage, environ, gdc >>

\* result = cursor.fetchone() (196) and the return statement (197-202).
GrfFetch(p) ==
  /\ pc[p] = "grf_fetch"
  /\ \E out \in OutcomesNoMsg("fetchone") :
       IF out = Ok
       THEN /\ grf' = [grf EXCEPT ![p].ret = GrfReturnValue(grf[p].resultset)]
            /\ Goto(p, GrfFinallyPc(grf[p]))
            /\ UNCHANGED exc
       ELSE GrfExcept(p, grf[p], out)
  /\ UNCHANGED << idb, pf, hw, response, tableExists, rows, nreq, storage, environ, gdc >>

\* cursor.close() in the finally block (211-212).  When it raises, the
\* pending `return` is abandoned and the exception leaves get_random_fact.
GrfCursorClose(p) ==
  /\ pc[p] = "grf_cursor_close"
  /\ \E out \in OutcomesNoMsg("cursor.close") :
       IF out = Ok
       THEN /\ grf' = [grf EXCEPT ![p].cursor = "closed"]
            /\ Goto(p, IF grf[p].conn # "unset" THEN "grf_conn_close" ELSE "grf_return")
            /\ UNCHANGED exc
       ELSE /\ exc' = [exc EXCEPT ![p] = out]
            /\ Goto(p, "grf_return")
            /\ UNCHANGED grf
  /\ UNCHANGED << idb, pf, hw, response, tableExists, rows, nreq, storage, environ, gdc >>

\* conn.close() in the finally block (213-214).
GrfConnClose(p) ==
  /\ pc[p] = "grf_conn_close"
  /\ \E out \in OutcomesNoMsg("conn.close") :
       IF out = Ok
       THEN /\ grf' = [grf EXCEPT ![p].conn = "closed"]
            /\ UNCHANGED exc
       ELSE /\ exc' = [exc EXCEPT ![p] = out]
            /\ UNCHANGED grf
  /\ Goto(p, "grf_return")
  /\ UNCHANGED << idb, pf, hw, response, tableExists, rows, nreq, storage, environ, gdc >>

\* ------------------------------------------------------------ hello_world
\* Variant: `except Error` in place of `except Exception`.
HwInitCatches_ErrorOnly(e) == IsInstance(e, "Error")

\* `except Exception as e` around init_database() (235)
HwInitCatches(e) == IsInstance(e, "Exception")

\* Variant: `except Error` in place of `except Exception`.
HwFactCatches_ErrorOnly(e) == IsInstance(e, "Error")

\* `except Exception as e` around get_random_fact() (246)
HwFactCatches(e) == IsInstance(e, "Exception")

\* The outer `except Exception as e` of hello_world (299).
HwOuterCatches(e) == IsInstance(e, "Exception")

\* `except Exception as e` around init_database() in main (335).
MainInitCatches(e) == IsInstance(e, "Exception")

\* What no except clause catches leaves hello_world (or main): p ends there,
\* without a response.
Uncaught(p) ==
  /\ Goto(p, "exited")
  /\ UNCHANGED << hw, response >>

\* The outer `except Exception` (299-310): the 500 response.
Response500(e) ==
  Some([code |-> 500, status |-> None, error |-> Some(<< e.msg >>),
        random_fact |-> None])

\* `if db_init_error:` (284)
HwDegraded(db_init_error) == Truthy(db_init_error)

\* Variant: the placeholder given only when db_init_error is None.
HwPlaceholder_isNone(db_init_error) == db_init_error = None

\* `if not db_init_error:` (293), reached when random_fact is falsy.
HwPlaceholder(db_init_error) == ~ Truthy(db_init_error)

\* The 200 response (272-298) from the handler's locals.  The optional
\* version field, read from a file, is left out.
Response200(h) ==
  Some([code |-> 200,
        status |-> IF HwDegraded(h.db_init_error) THEN Some("degraded")
                   ELSE Some("healthy"),
        error |-> IF HwDegraded(h.db_init_error)
                  THEN Some(<< InitFailedPrefix, h.db_init_error[1] >>)
                  ELSE None,
        random_fact |-> IF Truthy(h.random_fact) THEN h.random_fact
                        ELSE IF HwPlaceholder(h.db_init_error) THEN Some(NoFactsMessage)
                        ELSE None])

\* A request arrives at a free thread of the running server: hello_world is
\* entered (221-231) and calls init_database().
Start(p) ==
  /\ p \in Threads
  /\ pc[MainProc] = "serving"
  /\ pc[p] \in {"idle", "done"}
  /\ nreq < MaxRequests
  /\ nreq' = nreq + 1
  /\ Goto(p, "idb_connect")
  /\ hw' = [hw EXCEPT ![p] = HwFrame0]
  /\ idb' = [idb EXCEPT ![p] = IdbFrame0]
  /\ response' = [response EXCEPT ![p] = None]
  /\ UNCHANGED << exc, pf, grf, tableExists, rows, storage, environ, gdc >>

\* init_database has returned or raised to its caller.  In hello_world
\* (232-242) the exception's text goes to db_init_error and get_random_fact()
\* is called; in main (331-339) it is printed and the server starts.
IdbReturn(p) ==
  /\ pc[p] = "idb_return"
  /\ idb' = [idb EXCEPT ![p] = IdbFrame0]
  /\ exc' = [exc EXCEPT ![p] = NoExc]
  /\ IF p = MainProc
     THEN IF exc[p] = NoExc \/ MainInitCatches(exc[p])
          THEN /\ Goto(p, "serving")
               /\ UNCHANGED << hw, grf, response >>
          ELSE Uncaught(p) /\ UNCHANGED grf
     ELSE IF exc[p] = NoExc \/ HwInitCatches(exc[p])
     THEN /\ hw' = [hw EXCEPT ![p].db_init_error =
                      IF exc[p] = NoExc THEN None ELSE Some(exc[p].msg)]
          /\ grf' = [grf EXCEPT ![p] = GrfFrame0]
          /\ Goto(p, "grf_connect")
          /\ UNCHANGED response
     ELSE IF HwOuterCatches(exc[p])
     THEN /\ response' = [response EXCEPT ![p] = Response500(exc[p])]
          /\ Goto(p, "done")
          /\ UNCHANGED << hw, grf >>
     ELSE Uncaught(p) /\ UNCHANGED grf
  /\ UNCHANGED << pf, tableExists, rows, nreq, storage, environ, gdc >>

\* get_random_fact has returned or raised to hello_world (243-248).
GrfReturn(p) ==
  /\ pc[p] = "grf_return"
  /\ grf' = [grf EXCEPT ![p] = GrfFrame0]
  /\ exc' = [exc EXCEPT ![p] = NoExc]
  /\ IF exc[p] = NoExc \/ HwFactCatches(exc[p])
     THEN /\ hw' = [hw EXCEPT ![p].random_fact =
                      IF exc[p] = NoExc THEN grf[p].ret ELSE None]
          /\ Goto(p, "hw_respond")
          /\ UNCHANGED response
     ELSE IF HwOuterCatches(exc[p])
     THEN /\ response' = [response EXCEPT ![p] = Response500(exc[p])]
          /\ Goto(p, "done")
          /\ UNCHANGED hw
     ELSE Uncaught(p)
  /\ UNCHANGED << idb, pf, tableExists, rows, nreq, storage, environ, gdc >>

\* The response is assembled and returned with status 200 (272-298).
HwRespond(p) ==
  /\ pc[p] = "hw_respond"
  /\ response' = [response EXCEPT ![p] = Response200(hw[p])]
  /\ Goto(p, "done")
  /\ UNCHANGED << exc, idb, pf, grf, hw, tableExists, rows, nreq, storage, environ, gdc >>

\* ---------------------------------------------------------- specification
Step(p) ==
  \/ IdbConnect(p) \/ IdbCursor(p) \/ IdbCreate(p) \/ IdbCommit(p)
  \/ IdbRollback(p) \/ IdbCursorClose(p) \/ IdbConnClose(p) \/ IdbReturn(p)
  \/ PfConnect(p) \/ PfCursor(p) \/ PfCount(p) \/ PfFetch(p) \/ PfInsert(p)
  \/ PfCommit(p) \/ PfRollback(p) \/ PfCursorClose(p) \/ PfConnClose(p)
  \/ PfReturn(p)
  \/ GrfConnect(p) \/ GrfCursor(p) \/ GrfSelect(p) \/ GrfFetch(p)
  \/ GrfCursorClose(p) \/ GrfConnClose(p) \/ GrfReturn(p)
  \/ HwRespond(p)

Next == \E p \in Procs : Start(p) \/ Step(p)

Spec == Init /\ [][Next]_vars


\* ------------------------------------------- get_db_connection on its own
\* get_db_connection() called directly (as the unit tests do), whole: the
\* environment is read (43-47); int(db_port) (58) raises ValueError before
\* connect is reached, or connect is called once with ConnectArgs and the
\* call returns the connection or raises what the driver raised (67-75).
GetDbConnectionCall ==
  /\ Len(gdc) < MaxCalls
  /\ IF IsIntLiteral(Getenv(environ.DB_PORT, DefaultPort))
     THEN \E out \in DriverConnect(Failures("connect")) :
            gdc' = Append(gdc, [connect |-> << ConnectArgs(environ) >>,
                                outcome |-> GetDbConnection(out)])
     ELSE gdc' = Append(gdc, [connect |-> << >>,
                              outcome |-> GetDbConnection(ValueError)])
  /\ UNCHANGED << pc, exc, idb, pf, grf, hw, response, tableExists, rows, nreq,
                  storage, environ >>

InitConn ==
  /\ pc = [p \in Procs |-> "idle"]
  /\ exc = [p \in Procs |-> NoExc]
  /\ idb = [p \in Procs |-> IdbFrame0]
  /\ pf = [p \in Procs |-> PfFrame0]
  /\ grf = [p \in Procs |-> GrfFrame0]
  /\ hw = [p \in Procs |-> HwFrame0]
  /\ response = [p \in Procs |-> None]
  /\ tableExists = FALSE
  /\ rows = << >>
  /\ nreq = 0
  /\ storage \in StorageModes
  /\ environ \in Environments
  /\ gdc = << >>

NextConn == GetDbConnectionCall

SpecConn == InitConn /\ [][NextConn]_vars

\* Requests that never overlap: a request starts only when no other is in flight.
StartAlone(p) ==
  /\ \A q \in Threads \ {p} : pc[q] \in {"idle", "done"}
  /\ Start(p)

NextSeq == \E p \in Procs : StartAlone(p) \/ Step(p)

SpecSeq == Init /\ [][NextSeq]_vars

\* Every driver call returns or raises in the end (the connect by its
\* 10 second timeout at the latest), and the server keeps running each
\* request's thread: a request that can take a step eventually takes one.
\* Nothing obliges a new request to arrive.
Fairness == \A p \in Threads : WF_vars(Step(p))

SpecFair == Spec /\ Fairness

\* The storage comes back: from some moment between requests (startup done,
\* no request in flight) the server and the network are sound, and stay so.
Recover ==
  /\ storage \in {"flaky", "down"}
  /\ pc[MainProc] = "serving"
  /\ \A p \in Threads : pc[p] \in {"idle", "done"}
  /\ storage' = "sound"
  /\ UNCHANGED << pc, exc, idb, pf, grf, hw, response, tableExists, rows, nreq,
                  environ, gdc >>

NextRecover == Next \/ Recover

SpecRecover == Init /\ [][NextRecover]_vars

\* ------------------------------------------------------------- properties
\* How often the fact x occurs in the sequence s.
Occurrences(x, s) == Cardinality({ i \in 1..Len(s) : s[i] = x })

InPopulate(p) ==
  pc[p] \in {"pf_connect", "pf_cursor", "pf_count", "pf_fetch", "pf_insert",
             "pf_commit", "pf_rollback", "pf_cursor_close", "pf_conn_close",
             "pf_return"}

\* C1: every response of hello_world has HTTP status 200, whatever the
\* storage operations of the request did.
C1_Always200 ==
  \A p \in Threads : response[p] # None => response[p][1].code = 200

\* A 200 response of a request whose init_database failed.
C1_Witness ==
  \E p \in Threads :
    /\ response[p] # None
    /\ response[p][1].code = 200
    /\ hw[p].db_init_error # None

\* C2: the status is "healthy" exactly when init_database returned without
\* raising; when it raised, the status is "degraded" and there is an error field.
C2_StatusIffInitOk ==
  \A p \in Threads :
    (pc[p] = "done" /\ response[p] # None) =>
      /\ (response[p][1].status = Some("healthy")) <=> (hw[p].db_init_error = None)
      /\ (hw[p].db_init_error # None) =>
           /\ response[p][1].status = Some("degraded")
           /\ response[p][1].error # None

\* C3: with requests that never overlap, a populate_facts call that finds
\* rows in the table inserts nothing, and the table never holds more than N rows.
C3_CountGated ==
  /\ \A p \in Procs :
       (InPopulate(p) /\ pf[p].fact_count # None /\ pf[p].fact_count[1] > 0) =>
         /\ pc[p] \notin {"pf_insert", "pf_commit", "pf_rollback"}
         /\ pf[p].pending = << >>
         /\ ~ pf[p].committed
  /\ Len(rows) <= N

\* A second request's populate_facts found the N seed rows and skipped.
C3_Witness ==
  \E p \in Threads :
    /\ nreq = 2
    /\ pc[p] = "pf_cursor_close"
    /\ pf[p].fact_count = Some(N)
    /\ rows = facts

\* C4: when two concurrent populate_facts calls both read count 0 and both
\* commit their batch, the table holds every seed fact at least twice (2N rows
\* or more); that state is reachable.
C4_RaceDoubles ==
  \A p, q \in Threads :
    (p # q /\ pf[p].committed /\ pf[q].committed
     /\ pf[p].fact_count = Some(0) /\ pf[q].fact_count = Some(0)) =>
      /\ Len(rows) >= 2 * N
      /\ \A x \in FactSet : Occurrences(x, rows) >= 2

\* Both calls read 0, both committed, and the table is the seed list twice.
C4_Witness ==
  /\ pf[1].committed /\ pf[2].committed
  /\ pf[1].fact_count = Some(0) /\ pf[2].fact_count = Some(0)
  /\ rows = facts \o facts

\* C5: the committed table is always k whole copies of the seed list: every
\* row is a seed fact, every seed fact occurs the same number k of times, and
\* the row count is k * N.
C5_WholeCopies ==
  /\ \A i \in 1..Len(rows) : rows[i] \in FactSet
  /\ Len(rows) % N = 0
  /\ \A x \in FactSet : Occurrences(x, rows) = Len(rows) \div N

\* One copy is committed while another request holds part of a batch in its
\* transaction after a failed executemany.
C5_Witness ==
  /\ rows = facts
  /\ \E p \in Threads :
       /\ pc[p] = "pf_rollback"
       /\ pf[p].pending # << >>
       /\ Len(pf[p].pending) < N

\* C6: get_random_fact never raises; after any failure it returns None.
C6_NeverRaises ==
  \A p \in Threads :
    pc[p] = "grf_return" =>
      /\ exc[p] = NoExc
      /\ (grf[p].e # "none" => grf[p].ret = None)


\* The SELECT of get_random_fact in p has just returned normally.
SelectReturned(p) == pc[p] = "grf_select" /\ pc'[p] = "grf_fetch"

\* get_random_fact in p is returning and none of its driver calls failed.
GrfCleanReturn(p) ==
  /\ pc[p] = "grf_return"
  /\ grf[p].e = "none"
  /\ exc[p] = NoExc
  /\ grf[p].conn = "closed"

\* C7: when the table exists and is empty and no storage operation fails,
\* the SELECT yields no row and get_random_fact returns None.
C7_EmptyGivesNone ==
  /\ [][\A p \in Threads :
          (SelectReturned(p) /\ tableExists /\ rows = << >>) =>
            grf'[p].resultset = None]_vars
  /\ [](\A p \in Threads :
          (GrfCleanReturn(p) /\ grf[p].resultset = None) => grf[p].ret = None)

\* get_random_fact returns None from an existing, empty table without failure.
C7_Witness ==
  \E p \in Threads :
    /\ GrfCleanReturn(p)
    /\ tableExists /\ rows = << >>
    /\ grf[p].ret = None

\* C8: when the table is not empty and no storage operation fails, the SELECT
\* yields a row of the table and get_random_fact returns that row's fact, which
\* is in the table and is one of the seed literals.
C8_ReturnsSeededFact ==
  /\ [][\A p \in Threads :
          (SelectReturned(p) /\ rows # << >>) =>
            /\ grf'[p].resultset # None
            /\ \E i \in 1..Len(rows) : grf'[p].resultset = << rows[i] >>]_vars
  /\ [](\A p \in Threads :
          (GrfCleanReturn(p) /\ grf[p].resultset # None) =>
            /\ grf[p].ret = Some(grf[p].resultset[1])
            /\ grf[p].ret[1] \in FactSet
            /\ \E i \in 1..Len(rows) : rows[i] = grf[p].ret[1])

\* get_random_fact returns a fact while another request is in flight.
C8_Witness ==
  \E p, q \in Threads :
    /\ p # q
    /\ GrfCleanReturn(p)
    /\ grf[p].ret # None
    /\ pc[q] \notin {"idle", "done"}

\* C9: when init_database, populate_facts or get_random_fact returns or
\* raises, the connection and the cursor it opened are closed.
C9_AllClosed ==
  \A p \in Procs :
    /\ pc[p] = "idb_return" => (idb[p].conn # "open" /\ idb[p].cursor # "open")
    /\ pc[p] = "pf_return" => (pf[p].conn # "open" /\ pf[p].cursor # "open")
    /\ pc[p] = "grf_return" => (grf[p].conn # "open" /\ grf[p].cursor # "open")

\* A driver call in the try body of init_database (83-98) has just raised a
\* database Error in p.
IdbBodyPcs == {"idb_connect", "idb_cursor", "idb_create", "idb_commit"}
IdbRaisedError(p) ==
  pc[p] \in IdbBodyPcs /\ exc[p] = NoExc /\ exc'[p].kind = "Error"

\* From the except clause to the exit of init_database the exception in flight
\* is kept, unless rollback or a close raises another in its place.
IdbKeepsRaising(p) ==
  (pc[p] \in {"idb_rollback", "idb_cursor_close", "idb_conn_close"}
   /\ exc[p] # NoExc) =>
    \/ exc'[p] = exc[p]
    \/ exc'[p].at \in {"rollback", "cursor.close", "conn.close"}

\* C10 as claimed: on any database Error raised in init_database, connecting
\* included, conn.rollback() is called and the error is re-raised.
C10_RollbackOnAnyError ==
  [][\A p \in Procs :
       /\ IdbRaisedError(p) => pc'[p] = "idb_rollback"
       /\ IdbKeepsRaising(p)]_vars

\* C10 amended: an Error raised once the connection exists (cursor, CREATE
\* TABLE, commit) leads to conn.rollback(); an Error raised while connecting
\* leaves init_database at once, without rollback; either way an exception
\* reaches the caller, the original one unless rollback or a close raises.
C10_RollbackWhenConnected ==
  [][\A p \in Procs :
       /\ (IdbRaisedError(p) /\ pc[p] # "idb_connect") => pc'[p] = "idb_rollback"
       /\ (IdbRaisedError(p) /\ pc[p] = "idb_connect") =>
            (pc'[p] = "idb_return" /\ exc'[p].at = "connect")
       /\ IdbKeepsRaising(p)]_vars

\* CREATE TABLE raised an Error and conn.rollback() is about to be called.
C10_Witness ==
  \E p \in Threads :
    /\ pc[p] = "idb_rollback"
    /\ exc[p].kind = "Error"
    /\ exc[p].at = "execute"


\* p has just left the step it was at.
Left(p, l) == pc[p] = l /\ pc'[p] # l

\* C11: whatever populate_facts raises is swallowed by init_database, which
\* goes on to its finally block with no exception in flight; from there only
\* a close of its own can make it raise, and when it returns normally the
\* request reports "healthy".
C11_SeederNeverFailsInit ==
  [][\A p \in Procs :
       /\ Left(p, "pf_return") =>
            /\ exc'[p] = NoExc
            /\ pc'[p] \in {"idb_cursor_close", "idb_conn_close", "idb_return"}
       /\ (pc[p] \in {"idb_cursor_close", "idb_conn_close"}
           /\ exc[p] = NoExc /\ exc'[p] # NoExc) =>
            exc'[p].at \in {"cursor.close", "conn.close"}
       /\ (p \in Threads /\ Left(p, "idb_return") /\ exc[p] = NoExc) =>
            hw'[p].db_init_error = None
       /\ (Left(p, "hw_respond") /\ hw[p].db_init_error = None) =>
            response'[p][1].status = Some("healthy")]_vars

\* A "healthy" response of a request whose init_database returned normally
\* while the table is still empty: its populate_facts raised.
C11_Witness ==
  \E p \in Threads :
    /\ response[p] # None
    /\ response[p][1].status = Some("healthy")
    /\ hw[p].db_init_error = None
    /\ tableExists /\ rows = << >>

\* C12: init_database is idempotent when calls do not overlap.  A call in
\* which nothing failed leaves the table present and holding rows; from such a
\* storage state no later call changes the table or its rows; and while no
\* storage operation fails, no call (the second included) raises anything.
C12_Idempotent ==
  [][/\ (storage = "sound") => \A p \in Procs : exc'[p] = NoExc
     /\ (tableExists /\ rows # << >>) => (tableExists' /\ rows' = rows)
     /\ \A p \in Procs :
          (pc[p] # "pf_return" /\ pc'[p] = "pf_return" /\ exc'[p] = NoExc) =>
            (tableExists' /\ rows' # << >>)]_vars

\* The populate_facts of a later call of init_database returns, having found
\* the rows the first call left and inserted nothing.
C12_Witness ==
  \E p \in Threads :
    /\ storage = "sound" /\ nreq = 2
    /\ pc[p] = "pf_return" /\ exc[p] = NoExc
    /\ pf[p].fact_count = Some(N) /\ pf[p].pending = << >>
    /\ tableExists /\ rows = facts

\* C13: on a sound storage that starts with no random_facts table, with
\* requests one at a time, every response (the first one included) has status
\* "healthy" and a random_fact that is one of the seeded literals, never the
\* placeholder message.
C13_FreshCleanHealthy ==
  \A p \in Threads :
    (storage = "sound" /\ response[p] # None) =>
      /\ response[p][1].code = 200
      /\ response[p][1].status = Some("healthy")
      /\ response[p][1].error = None
      /\ response[p][1].random_fact # None
      /\ response[p][1].random_fact[1] \in FactSet
      /\ response[p][1].random_fact[1] # NoFactsMessage

\* The first request on a sound storage has been answered with a seeded fact.
C13_Witness ==
  \E p \in Threads :
    /\ storage = "sound" /\ nreq = 1 /\ pc[p] = "done"
    /\ response[p] # None
    /\ response[p][1].status = Some("healthy")
    /\ response[p][1].random_fact # None
    /\ response[p][1].random_fact[1] \in FactSet
    /\ rows = facts

\* C14: when every connection attempt fails, the response has HTTP status
\* 200, status "degraded", an error string, and no random_fact field.
C14_DownDegraded ==
  \A p \in Threads :
    (storage = "down" /\ response[p] # None) =>
      /\ response[p][1].code = 200
      /\ response[p][1].status = Some("degraded")
      /\ response[p][1].error # None
      /\ response[p][1].random_fact = None

\* C15: every HTTP 200 response carries a random_fact field or an error field,
\* whatever the storage holds and whichever storage operations failed.
C15_FactOrError ==
  \A p \in Threads :
    (response[p] # None /\ response[p][1].code = 200) =>
      (response[p][1].random_fact # None \/ response[p][1].error # None)

\* A 200 response after a failure of init_database whose message is empty:
\* it has no error field, and carries the placeholder as its random_fact.
C15_Witness ==
  \E p \in Threads :
    /\ response[p] # None /\ response[p][1].code = 200
    /\ hw[p].db_init_error = Some("")
    /\ response[p][1].error = None
    /\ response[p][1].random_fact = Some(NoFactsMessage)

ClaimedArgNames == {"host", "port", "database", "user", "password"}

Phase(l) ==
  IF l \in {"idle", "done", "exited"} THEN "out"
  ELSE IF l = "hw_respond" THEN "respond"
  ELSE IF l \in {"grf_connect", "grf_cursor", "grf_select", "grf_fetch",
                 "grf_cursor_close", "grf_conn_close", "grf_return"} THEN "fact"
  ELSE "init"

\* C19: a request is a single pass.  It enters init_database when it starts,
\* enters get_random_fact only from the exit of init_database (returned or
\* raised), assembles the response only from the exit of get_random_fact, and
\* ends only by returning the assembled response; no call is entered twice.
C19_SinglePass ==
  [][\A p \in Threads :
       (Phase(pc'[p]) # Phase(pc[p])) =>
         \/ /\ Phase(pc[p]) = "out" /\ pc'[p] = "idb_connect"
            /\ nreq' = nreq + 1 /\ response'[p] = None
         \/ /\ pc[p] = "idb_return" /\ pc'[p] = "grf_connect"
            /\ hw'[p].db_init_error =
                 (IF exc[p] = NoExc THEN None ELSE Some(exc[p].msg))
            /\ response'[p] = None
         \/ /\ pc[p] = "grf_return" /\ pc'[p] = "hw_respond"
            /\ hw'[p].db_init_error = hw[p].db_init_error
            /\ response'[p] = None
         \/ /\ pc[p] = "hw_respond" /\ pc'[p] = "done"
            /\ response'[p] # None]_vars

\* A request whose init_database raised is calling get_random_fact.
C19_Witness ==
  \E p \in Threads :
    /\ pc[p] = "grf_select"
    /\ hw[p].db_init_error = Some("m")
    /\ response[p] = None

\* C20: the random_fact field of a 200 response is the fact get_random_fact
\* returned whenever it returned one; it is the placeholder message exactly
\* when init_database did not raise and no fact was returned; it is absent
\* exactly when init_database raised and no fact was returned.
C20_RandomFactField ==
  \A p \in Threads :
    (pc[p] = "done" /\ response[p] # None /\ response[p][1].code = 200) =>
      /\ (hw[p].random_fact # None) =>
           response[p][1].random_fact = hw[p].random_fact
      /\ (response[p][1].random_fact = Some(NoFactsMessage)) <=>
           (hw[p].db_init_error = None /\ hw[p].random_fact = None)
      /\ (response[p][1].random_fact = None) <=>
           (hw[p].db_init_error # None /\ hw[p].random_fact = None)

\* C21: committed rows are write-once.  Every step leaves each committed row
\* where and as it was (the old rows are a prefix of the new ones), so the
\* row count never decreases; and the table, once created, stays.
C21_RowsWriteOnce ==
  [][/\ Len(rows) <= Len(rows')
     /\ SubSeq(rows', 1, Len(rows)) = rows
     /\ tableExists => tableExists']_vars

\* A commit has added the seed rows, and a later request has run CREATE TABLE
\* over the table that holds them.
C21_Witness ==
  \E p \in Threads :
    /\ rows = facts
    /\ pc[p] = "idb_commit"

\* C22: whenever a response reports status "healthy", the random_facts table
\* exists in committed storage when the response is assembled (and, the table
\* never being dropped, ever after).
C22_HealthyHasTable ==
  \A p \in Threads :
    /\ (pc[p] = "hw_respond" /\ ~ HwDegraded(hw[p].db_init_error)) => tableExists
    /\ (response[p] # None /\ response[p][1].status = Some("healthy")) =>
         tableExists

\* C23: whatever earlier requests and startup left behind (no table, an empty
\* table, or rows), a request that runs entirely on sound storage answers
\* "healthy" with a seeded fact, and the table then holds every seed fact.
\* The storage turns sound only between requests and stays sound, so a
\* request that responds on sound storage ran on it from its start.
C23_SeedingRecovers ==
  [][\A p \in Threads :
       (storage = "sound" /\ Left(p, "hw_respond")) =>
         /\ tableExists'
         /\ \A i \in 1..N : Occurrences(facts[i], rows') >= 1
         /\ response'[p] # None
         /\ response'[p][1].code = 200
         /\ response'[p][1].status = Some("healthy")
         /\ response'[p][1].error = None
         /\ response'[p][1].random_fact # None
         /\ response'[p][1].random_fact[1] \in FactSet]_vars

\* The first request failed at init_database and got no fact; the storage
\* came back, and the second request seeded the table and was answered
\* "healthy" with a fact.
C23_Witness ==
  \E p, q \in Threads :
    /\ p # q /\ nreq = 2 /\ storage = "sound"
    /\ pc[q] = "done" /\ response[q] # None
    /\ response[q][1].status = Some("degraded")
    /\ response[q][1].random_fact = None
    /\ pc[p] = "done" /\ response[p] # None
    /\ response[p][1].status = Some("healthy")
    /\ response[p][1].random_fact # None
    /\ response[p][1].random_fact[1] \in FactSet
    /\ rows = facts

\* A request in flight: started and not yet answered.
InFlight(p) == pc[p] \notin {"idle", "done", "exited"}

\* C24: every started request ends with a response, whatever the other
\* requests do and whichever storage calls fail, given that each storage
\* call returns or fails: no thread stays in flight for ever, each is again
\* and again either not started yet or done with a response in hand.
C24_RequestTerminates ==
  \A p \in Threads :
    []<>(pc[p] = "idle" \/ (pc[p] = "done" /\ response[p] # None))

\* On unreachable storage one request has been answered while the other is
\* still in flight.
C24_Witness ==
  \E p, q \in Threads :
    /\ storage = "down"
    /\ pc[p] = "done" /\ response[p] # None
    /\ InFlight(q) /\ pc[q] = "grf_return"

====
